---- MODULE Spec2Model ----
(***************************************************************************)
(* NetworkSet of network-set-calculator.py: a set of IPv4 networks and a   *)
(* set of IPv6 networks, with includeNetwork, excludeNetwork and           *)
(* getNetworks, and the part of __main__ that drives it.                   *)
(*                                                                         *)
(* A network is a record [version, network_address, prefixlen], the three  *)
(* fields an ipaddress.IPv4Network / IPv6Network is compared and hashed    *)
(* by.  network_address is the tuple of the address's bits, most           *)
(* significant first; its length is the family's max_prefixlen, and the    *)
(* bits after prefixlen are 0.  The ipaddress functions the program calls  *)
(* (supernet_of, address_exclude, collapse_addresses) are written out      *)
(* below step by step as CPython's Lib/ipaddress.py computes them.         *)
(***************************************************************************)
EXTENDS Integers, Sequences, FiniteSets, TLC

\* Width of the two address families of the exhaustive specifications
\* (IPv4Network.max_prefixlen is 32 and IPv6Network.max_prefixlen is 128).
V4Bits == 3
V6Bits == 1
\* Most networks the NetworkSet holds when a run of Spec starts.
MaxNets == 4
\* Most networks the NetworkSet holds when a run of SpecSeq starts, and the
\* most includeNetwork/excludeNetwork calls and getNetworks calls of the run.
MaxSeqNets == 1
MaxMutations == 2
MaxGets == 2
\* Largest set of networks of which every iteration order is tried.
MaxPermuted == 6
\* Most ranges __main__ is given in all (included, excluded, overrideIncluded).
MaxRanges == 3

VARIABLES
    v4Networks,   \* NetworkSet._v4Networks
    v6Networks,   \* NetworkSet._v6Networks
    calls,        \* the calls made so far: what was called, with what, what it
                  \* returned and the two collections it left
    start,        \* the two collections before the first call
    pc,           \* where __main__ is
    ranges        \* the ranges __main__ has iterated over so far

vars == <<v4Networks, v6Networks, calls, start, pc, ranges>>

None == "None"

-----------------------------------------------------------------------------
(* ipaddress: networks and addresses                                        *)

max_prefixlen(n) == Len(n.network_address)

\* All networks of a family whose addresses are `bits` wide.
Networks(version, bits) ==
    { [version |-> version, network_address |-> a, prefixlen |-> l] :
        <<a, l>> \in { x \in [1..bits -> {0, 1}] \X (0..bits) :
                         \A i \in 1..bits : i > x[2] => x[1][i] = 0 } }

network_address(n) == n.network_address

\* network_address | hostmask
broadcast_address(n) ==
    [i \in 1..max_prefixlen(n) |->
        IF i <= n.prefixlen THEN n.network_address[i] ELSE 1]

\* a < b on addresses of one family (comparison of the underlying integers).
AddrLt(a, b) ==
    \E i \in 1..Len(a) : a[i] < b[i] /\ \A j \in 1..(i - 1) : a[j] = b[j]

AddrLe(a, b) == a = b \/ AddrLt(a, b)

\* _BaseNetwork._is_subnet_of(a, b)
is_subnet_of(a, b) ==
    /\ a.version = b.version
    /\ AddrLe(network_address(b), network_address(a))
    /\ AddrLe(broadcast_address(a), broadcast_address(b))

subnet_of(a, b) == is_subnet_of(a, b)

supernet_of(a, b) == is_subnet_of(b, a)

\* self.subnets(): the two halves of n, lower half first.
subnets(n) ==
    << [n EXCEPT !.prefixlen = n.prefixlen + 1],
       [n EXCEPT !.prefixlen = n.prefixlen + 1,
                 !.network_address[n.prefixlen + 1] = 1] >>

\* self.supernet(): the network one bit shorter; a /0 network is its own.
supernet(n) ==
    IF n.prefixlen = 0 THEN n
    ELSE [n EXCEPT !.prefixlen = n.prefixlen - 1,
                   !.network_address[n.prefixlen] = 0]

\* _BaseNetwork.__lt__: by network_address, then by netmask.
NetLt(a, b) ==
    IF a.network_address # b.network_address
    THEN AddrLt(a.network_address, b.network_address)
    ELSE a.prefixlen < b.prefixlen

\* The value standing for a raised exception.
Raised == [version |-> 0, network_address |-> <<>>, prefixlen |-> 0]

-----------------------------------------------------------------------------
(* ipaddress: address_exclude                                               *)

RECURSIVE address_exclude_loop(_, _, _)
address_exclude_loop(s1, s2, other) ==
    IF s1 = other THEN {s2}
    ELSE IF s2 = other THEN {s1}
    ELSE IF subnet_of(other, s1)
         THEN {s2} \cup address_exclude_loop(subnets(s1)[1], subnets(s1)[2], other)
    ELSE IF subnet_of(other, s2)
         THEN {s1} \cup address_exclude_loop(subnets(s2)[1], subnets(s2)[2], other)
    ELSE {Raised}

\* self.address_exclude(other), as the set of the networks it yields.
address_exclude(self, other) ==
    IF ~subnet_of(other, self) THEN {Raised}
    ELSE IF other = self THEN {}
    ELSE address_exclude_loop(subnets(self)[1], subnets(self)[2], other)

-----------------------------------------------------------------------------
(* ipaddress: collapse_addresses                                            *)

Min(a, b) == IF a <= b THEN a ELSE b

\* int(address): the value of the first i bits of a.
RECURSIVE BitsToInt(_, _)
BitsToInt(a, i) == IF i = 0 THEN 0 ELSE 2 * BitsToInt(a, i - 1) + a[i]

ip_int(a) == BitsToInt(a, Len(a))

\* The address of `bits` bits whose integer is x.
IntToBits(x, bits) == [i \in 1..bits |-> (x \div 2^(bits - i)) % 2]

\* int.bit_length()
RECURSIVE bit_length(_)
bit_length(x) == IF x = 0 THEN 0 ELSE 1 + bit_length(x \div 2)

RECURSIVE trailing_zero_bits(_)
trailing_zero_bits(x) == IF x % 2 = 1 THEN 0 ELSE 1 + trailing_zero_bits(x \div 2)

\* _count_righthand_zero_bits(number, bits)
count_righthand_zero_bits(number, bits) ==
    IF number = 0 THEN bits ELSE Min(bits, trailing_zero_bits(number))

\* sorted(set(ips)), on the integers of the addresses.
RECURSIVE SortInts(_)
SortInts(S) ==
    IF S = {} THEN <<>>
    ELSE LET m == CHOOSE x \in S : \A y \in S : x <= y
         IN  <<m>> \o SortInts(S \ {m})

\* _find_address_range(addresses): the runs of consecutive addresses of the
\* sorted sequence ips from index i on, as <<first, last>> pairs.
RECURSIVE find_address_range(_, _, _, _)
find_address_range(ips, i, first, last) ==
    IF i > Len(ips) THEN << <<first, last>> >>
    ELSE IF ips[i] # last + 1
         THEN << <<first, last>> >> \o find_address_range(ips, i + 1, ips[i], ips[i])
         ELSE find_address_range(ips, i + 1, first, ips[i])

\* summarize_address_range(first, last), on the integers of the addresses.
RECURSIVE summarize_address_range(_, _, _, _)
summarize_address_range(first_int, last_int, ip_bits, version) ==
    IF first_int > last_int THEN <<>>
    ELSE LET nbits == Min(count_righthand_zero_bits(first_int, ip_bits),
                          bit_length(last_int - first_int + 1) - 1)
             net == [version |-> version,
                     network_address |-> IntToBits(first_int, ip_bits),
                     prefixlen |-> ip_bits - nbits]
             next_int == first_int + 2^nbits
         IN  <<net>> \o
             (IF next_int - 1 = 2^ip_bits - 1 THEN <<>>
              ELSE summarize_address_range(next_int, last_int, ip_bits, version))

RECURSIVE summarize_ranges(_, _, _, _)
summarize_ranges(runs, i, ip_bits, version) ==
    IF i > Len(runs) THEN <<>>
    ELSE summarize_address_range(runs[i][1], runs[i][2], ip_bits, version)
         \o summarize_ranges(runs, i + 1, ip_bits, version)

\* The merge loop of _collapse_addresses_internal: to_merge is the list still
\* to process (popped from its end), subnets the dict from supernet to net.
RECURSIVE merge_loop(_, _)
merge_loop(to_merge, subnets_of) ==
    IF to_merge = <<>> THEN subnets_of
    ELSE LET net == to_merge[Len(to_merge)]
             rest == SubSeq(to_merge, 1, Len(to_merge) - 1)
             sup == supernet(net)
         IN  IF sup \notin DOMAIN subnets_of
             THEN merge_loop(rest, [k \in (DOMAIN subnets_of) \cup {sup} |->
                                       IF k = sup THEN net ELSE subnets_of[k]])
             ELSE IF subnets_of[sup] # net
             THEN merge_loop(Append(rest, sup),
                             [k \in (DOMAIN subnets_of) \ {sup} |-> subnets_of[k]])
             ELSE merge_loop(rest, subnets_of)

\* sorted(subnets.values())
RECURSIVE SortNets(_)
SortNets(S) ==
    IF S = {} THEN <<>>
    ELSE LET m == CHOOSE x \in S : \A y \in S \ {x} : NetLt(x, y)
         IN  <<m>> \o SortNets(S \ {m})

\* The last loop of _collapse_addresses_internal: yield the sorted networks,
\* skipping those the last yielded one subsumes (last = 0: none yielded yet,
\* otherwise the index in sorted of the last one yielded).
RECURSIVE skip_subsumed(_, _, _)
skip_subsumed(sorted, i, last) ==
    IF i > Len(sorted) THEN {}
    ELSE IF last # 0
            /\ AddrLe(broadcast_address(sorted[i]), broadcast_address(sorted[last]))
         THEN skip_subsumed(sorted, i + 1, last)
         ELSE {sorted[i]} \cup skip_subsumed(sorted, i + 1, i)

collapse_addresses_internal(addresses) ==
    LET subnets_of == merge_loop(addresses, <<>>)
        values == { subnets_of[k] : k \in DOMAIN subnets_of }
    IN  skip_subsumed(SortNets(values), 1, 0)

\* The first loop of collapse_addresses over addresses[i..]: the networks of
\* prefixlen = max_prefixlen (host = TRUE, whose addresses go to ips) or the
\* other networks (host = FALSE, which go to nets), in the order met.
RECURSIVE split_addresses(_, _, _)
split_addresses(addresses, i, host) ==
    IF i > Len(addresses) THEN <<>>
    ELSE (IF (addresses[i].prefixlen = max_prefixlen(addresses[i])) = host
          THEN <<addresses[i]>> ELSE <<>>)
         \o split_addresses(addresses, i + 1, host)

\* collapse_addresses(addresses), for the networks of one family in the order
\* the argument is iterated, as the set of the networks it yields.
collapse_addresses(addresses) ==
    LET hosts == split_addresses(addresses, 1, TRUE)
        nets == split_addresses(addresses, 1, FALSE)
        ips == SortInts({ ip_int(hosts[i].network_address) : i \in 1..Len(hosts) })
        addrs == IF ips = <<>> THEN <<>>
                 ELSE summarize_ranges(find_address_range(ips, 2, ips[1], ips[1]), 1,
                                       max_prefixlen(hosts[1]), hosts[1].version)
    IN  collapse_addresses_internal(addrs \o nets)

RECURSIVE IterationOrders(_)
IterationOrders(S) ==
    IF S = {} THEN {<<>>}
    ELSE UNION { { <<x>> \o o : o \in IterationOrders(S \ {x}) } : x \in S }

Reverse(s) == [i \in 1..Len(s) |-> s[Len(s) + 1 - i]]

\* The orders in which a set of networks may be iterated: Python fixes none.
\* Every order for a set of at most MaxPermuted networks; for a larger set
\* the ascending and the descending order only.
Orders(S) ==
    IF Cardinality(S) <= MaxPermuted THEN IterationOrders(S)
    ELSE { SortNets(S), Reverse(SortNets(S)) }

\* set(collapse_addresses(networks)) for each order the set may be iterated in.
Collapsed(networks) == { collapse_addresses(o) : o \in Orders(networks) }

-----------------------------------------------------------------------------
(* NetworkSet                                                               *)

IsV4(n) == n.version = 4

\* excludeNetwork without its filter: the subnets of the excluded network stay.
Excluded_unfiltered(networks, networkToExclude) ==
    UNION { IF supernet_of(n, networkToExclude)
            THEN address_exclude(n, networkToExclude)
            ELSE {n} : n \in networks }

\* excludeNetwork without address_exclude: a supernet is passed as it is.
Excluded_unsplit(networks, networkToExclude) ==
    { n \in networks : ~supernet_of(networkToExclude, n) }

\* excludeNetwork whose filter is consumed only after networks.clear().
Excluded_afterClear(networks, networkToExclude) ==
    UNION { IF supernet_of(n, networkToExclude)
            THEN address_exclude(n, networkToExclude)
            ELSE {n} : n \in { m \in {} : ~supernet_of(networkToExclude, m) } }

\* excludeNetwork that drops a supernet of the excluded network whole.
Excluded_dropsSupernets(networks, networkToExclude) ==
    { n \in networks : /\ ~supernet_of(networkToExclude, n)
                       /\ ~supernet_of(n, networkToExclude) }

\* The collection excludeNetwork leaves for a collection `networks`: the
\* filter and the map are consumed by chain(*...) before networks.clear().
Excluded(networks, networkToExclude) ==
    LET adjustedNetworks == { n \in networks : ~supernet_of(networkToExclude, n) }
    IN  UNION { IF supernet_of(n, networkToExclude)
                THEN address_exclude(n, networkToExclude)
                ELSE {n} : n \in adjustedNetworks }

\* includeNetwork that replaces the collection by the network.
Included_replaces(networks, networkToInclude) == {networkToInclude}

\* The collection includeNetwork leaves for a collection `networks`.
Included(networks, networkToInclude) == networks \cup {networkToInclude}

\* The two collections <<v4, v6>> that includeNetwork leaves for the two
\* collections s: it works on the one of the network's family.
AfterInclude(s, networkToInclude) ==
    IF IsV4(networkToInclude)
    THEN <<Included(s[1], networkToInclude), s[2]>>
    ELSE <<s[1], Included(s[2], networkToInclude)>>

\* The two collections <<v4, v6>> that excludeNetwork leaves for the two
\* collections s.
AfterExclude(s, networkToExclude) ==
    IF IsV4(networkToExclude)
    THEN <<Excluded(s[1], networkToExclude), s[2]>>
    ELSE <<s[1], Excluded(s[2], networkToExclude)>>

\* The record of a call: what was called, with what, what it returned, and
\* the two collections it left.
Call(op, net, ret, v4, v6) == [op |-> op, net |-> net, ret |-> ret, v4 |-> v4, v6 |-> v6]

includeNetwork(networkToInclude) ==
    /\ v4Networks' = AfterInclude(<<v4Networks, v6Networks>>, networkToInclude)[1]
    /\ v6Networks' = AfterInclude(<<v4Networks, v6Networks>>, networkToInclude)[2]
    /\ calls' = Append(calls, Call("includeNetwork", networkToInclude, None,
                                   v4Networks', v6Networks'))
    /\ UNCHANGED start

excludeNetwork(networkToExclude) ==
    /\ v4Networks' = AfterExclude(<<v4Networks, v6Networks>>, networkToExclude)[1]
    /\ v6Networks' = AfterExclude(<<v4Networks, v6Networks>>, networkToExclude)[2]
    /\ calls' = Append(calls, Call("excludeNetwork", networkToExclude, None,
                                   v4Networks', v6Networks'))
    /\ UNCHANGED start

\* getNetworks that returns the collapsed networks and keeps the collections.
getNetworks_notStored ==
    /\ \E r4 \in Collapsed(v4Networks), r6 \in Collapsed(v6Networks) :
           calls' = Append(calls, Call("getNetworks", None, <<r4, r6>>,
                                       v4Networks, v6Networks))
    /\ UNCHANGED <<v4Networks, v6Networks, start>>

\* getNetworks that returns the collapsed networks and empties the collections.
getNetworks_consumes ==
    /\ \E r4 \in Collapsed(v4Networks), r6 \in Collapsed(v6Networks) :
           calls' = Append(calls, Call("getNetworks", None, <<r4, r6>>, {}, {}))
    /\ v4Networks' = {}
    /\ v6Networks' = {}
    /\ UNCHANGED start

\* getNetworks returning the collections as they are, never collapsed.
getNetworks_uncollapsed ==
    /\ UNCHANGED <<v4Networks, v6Networks, start>>
    /\ calls' = Append(calls, Call("getNetworks", None, <<v4Networks, v6Networks>>,
                                   v4Networks, v6Networks))

\* The returned lists are modelled by the sets of their elements: list(set)
\* fixes no order.
getNetworks ==
    /\ v4Networks' \in Collapsed(v4Networks)
    /\ v6Networks' \in Collapsed(v6Networks)
    /\ calls' = Append(calls, Call("getNetworks", None, <<v4Networks', v6Networks'>>,
                                   v4Networks', v6Networks'))
    /\ UNCHANGED start

-----------------------------------------------------------------------------
(* Callers                                                                  *)

V4Nets == Networks(4, V4Bits)
V6Nets == Networks(6, V6Bits)
AllNets == V4Nets \cup V6Nets

\* The sets of at most k elements of S.
RECURSIVE SubsetsUpTo(_, _)
SubsetsUpTo(S, k) ==
    IF k = 0 THEN {{}}
    ELSE LET smaller == SubsetsUpTo(S, k - 1)
         IN  smaller \cup { T \cup {x} : <<T, x>> \in smaller \X S }

NoRanges == [included |-> <<>>, excluded |-> <<>>, overrideIncluded |-> <<>>]

\* A NetworkSet that holds any of the sets of at most k networks (every set
\* of networks is what includeNetwork calls on a new NetworkSet leave).
InitHolding(k) ==
    /\ \E S \in SubsetsUpTo(AllNets, k) :
         /\ v4Networks = { n \in S : IsV4(n) }
         /\ v6Networks = { n \in S : ~IsV4(n) }
    /\ start = <<v4Networks, v6Networks>>
    /\ calls = <<>>
    /\ pc = "caller"
    /\ ranges = NoRanges

CallInclude == \E p \in AllNets : includeNetwork(p) /\ UNCHANGED <<pc, ranges>>
CallExclude == \E p \in AllNets : excludeNetwork(p) /\ UNCHANGED <<pc, ranges>>
CallGet == getNetworks /\ UNCHANGED <<pc, ranges>>

(* Spec: one call of any operation on a NetworkSet holding any networks.    *)
Init == InitHolding(MaxNets)

Next ==
    /\ calls = <<>>
    /\ (CallInclude \/ CallExclude \/ CallGet)

Spec == Init /\ [][Next]_vars

(* SpecSeq: sequences of calls in any order.                                *)
IsGet(c) == c.op = "getNetworks"
NumGets == Cardinality({ i \in DOMAIN calls : IsGet(calls[i]) })
NumMutations == Cardinality({ i \in DOMAIN calls : ~IsGet(calls[i]) })

InitSeq == InitHolding(MaxSeqNets)

NextSeq ==
    \/ NumMutations < MaxMutations /\ CallInclude
    \/ NumMutations < MaxMutations /\ CallExclude
    \/ NumGets < MaxGets /\ CallGet

SpecSeq == InitSeq /\ [][NextSeq]_vars

(* SpecMain: __main__ from the construction of the NetworkSet on.           *)
NumRanges ==
    Len(ranges.included) + Len(ranges.excluded) + Len(ranges.overrideIncluded)

\* s=NetworkSet()
InitNetworkSet ==
    /\ v4Networks = {}
    /\ v6Networks = {}
    /\ start = <<v4Networks, v6Networks>>
    /\ calls = <<>>
    /\ pc = "included"
    /\ ranges = NoRanges

\* for p in includedRanges: s.includeNetwork(p)
MainInclude(p) ==
    /\ pc = "included"
    /\ NumRanges < MaxRanges
    /\ includeNetwork(p)
    /\ ranges' = [ranges EXCEPT !.included = Append(@, p)]
    /\ UNCHANGED pc

\* __main__ that passes over the excluded ranges without excluding them.
MainExclude_skipped(p) ==
    /\ pc \in {"included", "excluded"}
    /\ ranges.included # <<>>
    /\ NumRanges < MaxRanges
    /\ UNCHANGED <<v4Networks, v6Networks, calls, start>>
    /\ ranges' = [ranges EXCEPT !.excluded = Append(@, p)]
    /\ pc' = "excluded"

\* for p in excludedRanges: s.excludeNetwork(p).  includedRanges is never
\* empty: without -i it is ["0.0.0.0/0"].
MainExclude(p) ==
    /\ pc \in {"included", "excluded"}
    /\ ranges.included # <<>>
    /\ NumRanges < MaxRanges
    /\ excludeNetwork(p)
    /\ ranges' = [ranges EXCEPT !.excluded = Append(@, p)]
    /\ pc' = "excluded"

\* __main__ that includes the override ranges before the exclusions, where
\* an exclusion removes them again: here, an override range inside an
\* excluded range is not included.
MainOverride_beforeExclude(p) ==
    /\ pc \in {"included", "excluded", "overrideIncluded"}
    /\ ranges.included # <<>>
    /\ NumRanges < MaxRanges
    /\ IF \E i \in DOMAIN ranges.excluded : supernet_of(ranges.excluded[i], p)
       THEN UNCHANGED <<v4Networks, v6Networks, calls, start>>
       ELSE includeNetwork(p)
    /\ ranges' = [ranges EXCEPT !.overrideIncluded = Append(@, p)]
    /\ pc' = "overrideIncluded"

\* for p in overrideIncludedRanges: s.includeNetwork(p)
MainOverride(p) ==
    /\ pc \in {"included", "excluded", "overrideIncluded"}
    /\ ranges.included # <<>>
    /\ NumRanges < MaxRanges
    /\ includeNetwork(p)
    /\ ranges' = [ranges EXCEPT !.overrideIncluded = Append(@, p)]
    /\ pc' = "overrideIncluded"

\* (v4Nets, v6Nets) = s.getNetworks()
MainGetNetworks ==
    /\ pc \in {"included", "excluded", "overrideIncluded"}
    /\ ranges.included # <<>>
    /\ getNetworks
    /\ pc' = "done"
    /\ UNCHANGED ranges

NextMain ==
    \/ \E p \in AllNets : MainInclude(p)
    \/ \E p \in AllNets : MainExclude(p)
    \/ \E p \in AllNets : MainOverride(p)
    \/ MainGetNetworks

SpecMain == InitNetworkSet /\ [][NextMain]_vars

(* SpecE2E: __main__ on ranges of the real address families.                *)
\* The 8 bits of an octet, most significant first.
OctetBits(o) == [i \in 1..8 |-> (o \div 2^(8 - i)) % 2]

\* ip_network("a.b.c.d/len") for an address whose host bits are 0.
IPv4Network(a, b, c, d, len) ==
    [version |-> 4,
     network_address |-> OctetBits(a) \o OctetBits(b) \o OctetBits(c) \o OctetBits(d),
     prefixlen |-> len]

\* ip_network("xx00::/len") for a first octet whose host bits are 0.
IPv6Network(firstOctet, len) ==
    [version |-> 6,
     network_address |-> OctetBits(firstOctet) \o [i \in 1..120 |-> 0],
     prefixlen |-> len]

ScenarioNets ==
    { IPv4Network(0, 0, 0, 0, 0), IPv4Network(10, 0, 0, 0, 8),
      IPv4Network(10, 1, 2, 0, 24), IPv4Network(192, 168, 0, 0, 16),
      IPv6Network(0, 0), IPv6Network(255, 8) }

NextE2E ==
    \/ \E p \in ScenarioNets : MainInclude(p)
    \/ \E p \in ScenarioNets : MainExclude(p)
    \/ \E p \in ScenarioNets : MainOverride(p)
    \/ MainGetNetworks

SpecE2E == InitNetworkSet /\ [][NextE2E]_vars

-----------------------------------------------------------------------------
(* What the properties are stated with                                      *)

\* The addresses a network covers: those that share its leading prefixlen bits.
Hosts(n) ==
    { a \in [1..max_prefixlen(n) -> {0, 1}] :
        \A i \in 1..n.prefixlen : a[i] = n.network_address[i] }

\* The addresses a collection covers.
Covered(networks) == UNION { Hosts(n) : n \in networks }

Disjoint(a, b) == Hosts(a) \cap Hosts(b) = {}

PairwiseDisjoint(networks) ==
    \A a, b \in networks : a # b => Disjoint(a, b)

\* a strictly contains b
StrictlyContains(a, b) == a.version = b.version /\ Hosts(b) \subseteq Hosts(a) /\ a # b

Contains(a, b) == a = b \/ StrictlyContains(a, b)

\* Two networks of equal length that together are exactly their parent.
Siblings(a, b) ==
    /\ a.version = b.version
    /\ a # b
    /\ a.prefixlen = b.prefixlen
    /\ \A i \in 1..(a.prefixlen - 1) : a.network_address[i] = b.network_address[i]

\* The index of a network's family in <<v4, v6>> pairs.
Fam(n) == IF n.version = 4 THEN 1 ELSE 2

\* The two collections before and after the i-th call.
Before(i) == IF i = 1 THEN start ELSE <<calls[i - 1].v4, calls[i - 1].v6>>
After(i) == <<calls[i].v4, calls[i].v6>>

IsInclude(c) == c.op = "includeNetwork"
IsExclude(c) == c.op = "excludeNetwork"

-----------------------------------------------------------------------------
(* The claims                                                               *)

\* C2: whatever a family collection holds, getNetworks returns for it networks
\* that cover exactly the addresses covered before the call, are pairwise
\* disjoint, and are minimal: no two of them are siblings and none contains
\* another; two siblings alone come out as their parent alone.
C2_CollapseIsMinimalCover ==
    \A i \in DOMAIN calls : IsGet(calls[i]) =>
        \A f \in {1, 2} :
            LET before == Before(i)[f]
                ret == calls[i].ret[f]
            IN  /\ Covered(ret) = Covered(before)
                /\ PairwiseDisjoint(ret)
                /\ \A a, b \in ret : ~Siblings(a, b) /\ ~StrictlyContains(a, b)
                /\ \A a, b \in before :
                       before = {a, b} /\ Siblings(a, b) =>
                           \E n \in ret : /\ ret = {n}
                                          /\ n.prefixlen = a.prefixlen - 1
                                          /\ Hosts(n) = Hosts(a) \cup Hosts(b)

\* getNetworks was called on a v4 collection holding two siblings and a subnet
\* of one of them, and returned the parent alone.
C2_Witness ==
    /\ Len(calls) = 1
    /\ IsGet(calls[1])
    /\ \E a, b, c \in start[1] :
           /\ Siblings(a, b)
           /\ StrictlyContains(a, c)
           /\ \E n \in calls[1].ret[1] :
                  calls[1].ret[1] = {n} /\ n.prefixlen = a.prefixlen - 1

\* C8: right after excludeNetwork(p), whatever the collection held (p itself,
\* subnets of p, nested supernets of p), every member of p's family collection
\* is disjoint from p, and a following getNetworks covers no address of p.
C8_ExcludedIsGone ==
    \A i \in DOMAIN calls : IsExclude(calls[i]) =>
        LET p == calls[i].net
            after == After(i)[Fam(p)]
        IN  /\ Raised \notin after
            /\ \A n \in after : Disjoint(n, p)
            /\ \A r \in Collapsed(after) : Covered(r) \cap Hosts(p) = {}

\* excludeNetwork(p) was called on a collection holding p, a subnet of p and
\* two nested supernets of p.
C8_Witness ==
    /\ Len(calls) = 1
    /\ IsExclude(calls[1])
    /\ LET p == calls[1].net
           before == start[Fam(p)]
       IN  /\ p \in before
           /\ \E n \in before : StrictlyContains(p, n)
           /\ \E a, b \in before :
                  StrictlyContains(a, b) /\ StrictlyContains(b, p)

\* C9: excludeNetwork(p) replaces a member n that strictly contains p by
\* p.prefixlen - n.prefixlen networks, one of each length from n.prefixlen + 1
\* to p.prefixlen, pairwise disjoint, disjoint from p, covering with p exactly
\* the addresses of n, p not among them; and it adds nothing else.
C9_SupernetIsSplit ==
    \A i \in DOMAIN calls : IsExclude(calls[i]) =>
        LET p == calls[i].net
            before == Before(i)[Fam(p)]
            after == After(i)[Fam(p)]
        IN  /\ \A n \in before : StrictlyContains(n, p) =>
                  /\ n \notin after
                  /\ \E T \in SUBSET after :
                         /\ Cardinality(T) = p.prefixlen - n.prefixlen
                         /\ { m.prefixlen : m \in T } = (n.prefixlen + 1)..p.prefixlen
                         /\ PairwiseDisjoint(T)
                         /\ \A m \in T : Disjoint(m, p)
                         /\ Covered(T) \cup Hosts(p) = Hosts(n)
                         /\ p \notin T
            /\ \A m \in after \ before :
                   \E n \in before : /\ StrictlyContains(n, p)
                                     /\ StrictlyContains(n, m)
                                     /\ Disjoint(m, p)

\* excludeNetwork(p) met a member at least two bits shorter than p.
C9_Witness ==
    /\ Len(calls) = 1
    /\ IsExclude(calls[1])
    /\ LET p == calls[1].net
       IN  \E n \in start[Fam(p)] :
               /\ StrictlyContains(n, p)
               /\ p.prefixlen >= n.prefixlen + 2
               /\ Cardinality(After(1)[Fam(p)]) >= 2

\* C10: excludeNetwork(p) keeps every member of p's family collection that
\* neither contains p nor is contained in p, leaves the other family's
\* collection as it was, and changes nothing when p is disjoint from every
\* member.
C10_ExcludeFrame ==
    \A i \in DOMAIN calls : IsExclude(calls[i]) =>
        LET p == calls[i].net
            f == Fam(p)
            before == Before(i)[f]
            after == After(i)[f]
        IN  /\ \A n \in before : ~Contains(n, p) /\ ~Contains(p, n) => n \in after
            /\ After(i)[3 - f] = Before(i)[3 - f]
            /\ (\A n \in before : Disjoint(n, p)) => After(i) = Before(i)

\* excludeNetwork(p) was called with a member disjoint from p, a member that
\* contains p, and a network in the other family's collection.
C10_Witness ==
    /\ Len(calls) = 1
    /\ IsExclude(calls[1])
    /\ LET p == calls[1].net
           before == start[Fam(p)]
       IN  /\ \E n \in before : Disjoint(n, p) /\ n \in After(1)[Fam(p)]
           /\ \E n \in before : StrictlyContains(n, p)
           /\ start[3 - Fam(p)] # {}
           /\ After(1) # start

\* C3: over any calls from an excludeNetwork to a later one with no
\* includeNetwork between them, each family's coverage at the end is the
\* coverage at the start minus the addresses of all the networks excluded;
\* and two excludes in a row made in the other order leave the same coverage
\* and the same getNetworks result.
ExcludedBetween(i, j) == { calls[k].net : k \in { k \in i..j : IsExclude(calls[k]) } }

C3_ExcludesAreSetDifference ==
    /\ \A i, j \in DOMAIN calls :
           (/\ i <= j
            /\ IsExclude(calls[i])
            /\ IsExclude(calls[j])
            /\ \A k \in i..j : ~IsInclude(calls[k])) =>
               \A f \in {1, 2} :
                   Covered(After(j)[f]) =
                       Covered(Before(i)[f])
                           \ Covered({ e \in ExcludedBetween(i, j) : Fam(e) = f })
    /\ \A i \in DOMAIN calls :
           (i + 1 <= Len(calls) /\ IsExclude(calls[i]) /\ IsExclude(calls[i + 1])) =>
               LET swapped == AfterExclude(AfterExclude(Before(i), calls[i + 1].net),
                                           calls[i].net)
               IN  \A f \in {1, 2} :
                       /\ Covered(swapped[f]) = Covered(After(i + 1)[f])
                       /\ Collapsed(swapped[f]) = Collapsed(After(i + 1)[f])

\* Two different networks were excluded in a row, the second one out of a
\* network that the first exclude had split off.
C3_Witness ==
    \E i \in DOMAIN calls :
        /\ i + 1 <= Len(calls)
        /\ IsExclude(calls[i])
        /\ IsExclude(calls[i + 1])
        /\ calls[i].net # calls[i + 1].net
        /\ LET f == Fam(calls[i].net)
           IN  \E m \in After(i)[f] \ Before(i)[f] :
                   /\ StrictlyContains(m, calls[i + 1].net)
                   /\ m \notin After(i + 1)[f]

\* C4: excludeNetwork(X), includeNetwork(X), getNetworks in a row: in the
\* returned networks one network covers all of X, and outside X the coverage
\* is the one before the exclude.
C4_RoundTripOverride ==
    \A i \in DOMAIN calls :
        (/\ i + 2 <= Len(calls)
         /\ IsExclude(calls[i])
         /\ IsInclude(calls[i + 1])
         /\ calls[i + 1].net = calls[i].net
         /\ IsGet(calls[i + 2])) =>
            LET X == calls[i].net
                f == Fam(X)
                ret == calls[i + 2].ret
            IN  /\ \E n \in ret[f] : Hosts(X) \subseteq Hosts(n)
                /\ Covered(ret[f]) = Covered(Before(i)[f]) \cup Hosts(X)
                /\ Covered(ret[f]) \ Hosts(X) = Covered(Before(i)[f]) \ Hosts(X)
                /\ Covered(ret[3 - f]) = Covered(Before(i)[3 - f])

\* X was excluded out of a network at least two bits shorter, which split
\* it, then included again, and getNetworks returned that network alone.
C4_Witness ==
    \E i \in DOMAIN calls :
        /\ i + 2 <= Len(calls)
        /\ IsExclude(calls[i])
        /\ IsInclude(calls[i + 1])
        /\ calls[i + 1].net = calls[i].net
        /\ IsGet(calls[i + 2])
        /\ LET X == calls[i].net
           IN  \E n \in Before(i)[Fam(X)] :
                   /\ StrictlyContains(n, X)
                   /\ X.prefixlen >= n.prefixlen + 2
                   /\ Cardinality(After(i)[Fam(X)]) >= 2
                   /\ calls[i + 2].ret[Fam(X)] = {n}

\* C5: getNetworks leaves in the two collections the networks it returns, and
\* a second getNetworks right after it returns the same networks.
C5_GetNetworksIdempotent ==
    \A i \in DOMAIN calls : IsGet(calls[i]) =>
        /\ calls[i].ret = After(i)
        /\ (i + 1 <= Len(calls) /\ IsGet(calls[i + 1])) =>
               /\ calls[i + 1].ret = calls[i].ret
               /\ After(i + 1) = After(i)

\* getNetworks was called twice in a row, and the first call collapsed
\* something.
C5_Witness ==
    \E i \in DOMAIN calls :
        /\ i + 1 <= Len(calls)
        /\ IsGet(calls[i])
        /\ IsGet(calls[i + 1])
        /\ Cardinality(After(i)[1]) < Cardinality(Before(i)[1])

\* The two collections after the includeNetwork and excludeNetwork calls among
\* calls i..n, made on the collections s with no getNetworks between them.
RECURSIVE WithoutGets(_, _, _)
WithoutGets(s, i, n) ==
    IF i > n THEN s
    ELSE WithoutGets(IF IsInclude(calls[i]) THEN AfterInclude(s, calls[i].net)
                     ELSE IF IsExclude(calls[i]) THEN AfterExclude(s, calls[i].net)
                     ELSE s,
                     i + 1, n)

\* C6: a getNetworks call returns what getNetworks returns after the same
\* includeNetwork and excludeNetwork calls made with no earlier getNetworks
\* (no operation has a condition on what was called before).
C6_EarlyGetNetworksTransparent ==
    \A i \in DOMAIN calls : IsGet(calls[i]) =>
        LET twin == WithoutGets(start, 1, i - 1)
        IN  \A f \in {1, 2} : Collapsed(twin[f]) = {calls[i].ret[f]}

\* getNetworks was called after an earlier getNetworks that collapsed
\* something and a later call that changed a collection, and the collections
\* it worked on are not those the calls leave without the earlier getNetworks.
C6_Witness ==
    /\ Len(calls) >= 3
    /\ IsGet(calls[Len(calls)])
    /\ \E j \in 1..(Len(calls) - 2) :
           /\ IsGet(calls[j])
           /\ After(j) # Before(j)
           /\ ~IsGet(calls[j + 1])
           /\ After(j + 1) # After(j)
    /\ WithoutGets(start, 1, Len(calls) - 1) # Before(Len(calls))

\* The addresses of family f that the networks of a list cover.
CoveredByRanges(list, f) ==
    Covered({ list[k] : k \in { k \in DOMAIN list : Fam(list[k]) = f } })

\* C1: when __main__ has included the included ranges, excluded the excluded
\* ranges, included the override ranges and called getNetworks, the returned
\* networks of each family cover (included minus excluded) united with
\* override; every address of an override range is covered.
C1_MainCoverage ==
    pc = "done" =>
        LET ret == calls[Len(calls)].ret
        IN  /\ \A f \in {1, 2} :
                   Covered(ret[f]) =
                       (CoveredByRanges(ranges.included, f)
                            \ CoveredByRanges(ranges.excluded, f))
                       \cup CoveredByRanges(ranges.overrideIncluded, f)
            /\ \A k \in DOMAIN ranges.overrideIncluded :
                   LET o == ranges.overrideIncluded[k]
                   IN  Hosts(o) \subseteq Covered(ret[Fam(o)])

\* __main__ finished with an override range strictly inside an excluded range
\* strictly inside an included range.
C1_Witness ==
    /\ pc = "done"
    /\ \E i \in DOMAIN ranges.included, e \in DOMAIN ranges.excluded,
          o \in DOMAIN ranges.overrideIncluded :
           /\ StrictlyContains(ranges.included[i], ranges.excluded[e])
           /\ StrictlyContains(ranges.excluded[e], ranges.overrideIncluded[o])

\* The networks that differ from p in their last bit and share the bits before
\* it, one for each length from 1 to p.prefixlen: the largest networks inside
\* the family's /0 network that are disjoint from p, which together cover
\* every address outside p.
ComplementOf(p) ==
    { [version |-> p.version,
       network_address |->
           [i \in 1..max_prefixlen(p) |->
               IF i < l THEN p.network_address[i]
               ELSE IF i = l THEN 1 - p.network_address[i]
               ELSE 0],
       prefixlen |-> l] : l \in 1..p.prefixlen }

\* __main__ has run on -i 0.0.0.0/0 -e 10.0.0.0/8 -I 10.1.2.0/24.
EndToEndScenarioDone ==
    /\ pc = "done"
    /\ ranges = [included |-> <<IPv4Network(0, 0, 0, 0, 0)>>,
                 excluded |-> <<IPv4Network(10, 0, 0, 0, 8)>>,
                 overrideIncluded |-> <<IPv4Network(10, 1, 2, 0, 24)>>]

\* C7 as stated: in the end-to-end scenario the v4 result is 10.1.2.0/24 plus
\* the minimal cover of 0.0.0.0/0 minus 10.0.0.0/8, and the networks of that
\* cover have lengths 5 through 8.
C7_AsStated ==
    EndToEndScenarioDone =>
        LET v4Nets == calls[Len(calls)].ret[1]
            cover == v4Nets \ {IPv4Network(10, 1, 2, 0, 24)}
        IN  /\ v4Nets = {IPv4Network(10, 1, 2, 0, 24)}
                            \cup ComplementOf(IPv4Network(10, 0, 0, 0, 8))
            /\ \A n \in cover : n.prefixlen \in 5..8

\* C7, amended: in the end-to-end scenario the v4 result is 10.1.2.0/24 plus
\* the minimal cover of 0.0.0.0/0 minus 10.0.0.0/8, and that cover is eight
\* networks, one of each length 1 through 8; nothing comes out for v6.
C7_EndToEnd ==
    EndToEndScenarioDone =>
        LET v4Nets == calls[Len(calls)].ret[1]
            cover == v4Nets \ {IPv4Network(10, 1, 2, 0, 24)}
        IN  /\ v4Nets = {IPv4Network(10, 1, 2, 0, 24)}
                            \cup ComplementOf(IPv4Network(10, 0, 0, 0, 8))
            /\ Cardinality(cover) = 8
            /\ { n.prefixlen : n \in cover } = 1..8
            /\ \A n \in cover : ~supernet_of(n, IPv4Network(10, 0, 0, 0, 8))
                                /\ ~supernet_of(IPv4Network(10, 0, 0, 0, 8), n)
            /\ calls[Len(calls)].ret[2] = {}

\* The end-to-end scenario has run and returned nine v4 networks.
C7_Witness ==
    /\ EndToEndScenarioDone
    /\ Cardinality(calls[Len(calls)].ret[1]) = 9

====
